---- MODULE Spec2Model ----
(* A model of src/backend_app.py: the roster `students`, the ledger            *)
(* `attendance_log` (a defaultdict(list)), and the request handlers            *)
(* register_student, take_attendance, get_attendance_graph and send_report.    *)
(*                                                                             *)
(* Face encodings are abstracted to points on a line, measured in tenths, so   *)
(* that face_distance(a, b) is |a - b| and the tolerance 0.6 is 6.  Dates are  *)
(* day numbers 1, 2, ... (the order of the "%Y-%m-%d" strings).                *)
EXTENDS Integers, Sequences, FiniteSets, TLC

\* ---------------------------------------------------------------- bounds
MaxFaces == 2         \* faces found in one frame
MaxSize == 3          \* roster length + longest history, see Room
NumRequests == 2      \* requests in flight at once, see SpecConc
MaxDate == 3          \* day numbers a call of mark_attendance may see, see SpecAggregate
MaxHistory == 4       \* events of the history the aggregations read, see SpecAggregate
DaysPerMonth == 2     \* day numbers of one "%Y-%m" prefix

\* ------------------------------------------------------------- constants
Tolerance == 6        \* tolerance=0.6, in tenths

Names == {"A", "B"}
\* encodings (vectors, here of one coordinate) of registration photos and of
\* the faces of a frame; get_face_encoding returns None for a photo without a face
Encodings == {<<0>>, <<5>>}
FaceEncodings == {<<4>>, <<6>>, <<10>>}
NoEncoding == <<>>
None == "None"

\* the error strings of the handlers
NameAndPhotoRequired == "Name and photo required"
NoFaceDetected == "No face detected. Upload a clear front-facing photo."
EmptyRoster == "No students registered"
NoFrameUploaded == "No frame uploaded"
FailedToReadImage == "Failed to read image"
StudentNotFound == "Student not found"
InvalidStudent == "Invalid student"
FailedToGenerateReport == "Failed to generate report"

\* students, attendance_log: the globals of lines 25-26
\* today: the date datetime.now() gave last
\* resp:  the response to the last request served alone (Spec)
\* req:   the requests in flight, each with its position and locals (SpecConc)
VARIABLES students, attendance_log, today, resp, req

vars == <<students, attendance_log, today, resp, req>>

\* ---------------------------------------------------------------- helpers
Range(s) == {s[i] : i \in 1..Len(s)}

\* the element of a one-element set
TheOnly(S) == CHOOSE x \in S : TRUE

\* list.remove(x): drops the first occurrence of x
RECURSIVE Remove(_, _)
Remove(s, x) ==
    IF s = <<>> THEN <<>>
    ELSE IF Head(s) = x THEN Tail(s)
    ELSE <<Head(s)>> \o Remove(Tail(s), x)

\* defaultdict(list).__getitem__: a missing key is created with []
DefaultGet(log, k) ==
    IF k \in DOMAIN log THEN log
    ELSE [j \in DOMAIN log \cup {k} |-> IF j = k THEN <<>> ELSE log[j]]

\* dict.__setitem__
SetItem(log, k, v) ==
    [j \in DOMAIN log \cup {k} |-> IF j = k THEN v ELSE log[j]]

\* any(log["date"] == today and log["status"] == "Present" for log in h)
AnyPresentOn(h, date) ==
    \E i \in 1..Len(h) : h[i].date = date /\ h[i].status = "Present"

\* mark_attendance without the test of line 38
mark_attendance_append_always(log, student_id, status, date) ==
    [DefaultGet(log, student_id) EXCEPT
        ![student_id] = Append(@, [status |-> status, date |-> date])]

\* line 38: whether mark_attendance returns at line 39
MarkReturnsEarly(log, student_id, status, date) ==
    status = "Present" /\ AnyPresentOn(DefaultGet(log, student_id)[student_id], date)

\* line 38, for status "Present": the ledger after attendance_log[student_id]
MarkRead(log, student_id, status) ==
    IF status = "Present" THEN DefaultGet(log, student_id) ELSE log

\* line 40
MarkAppend(log, student_id, status, date) ==
    [DefaultGet(log, student_id) EXCEPT
        ![student_id] = Append(@, [status |-> status, date |-> date])]

\* mark_attendance with the test of line 38 made for either status
mark_attendance_once_per_status(log, student_id, status, date) ==
    IF \E i \in 1..Len(DefaultGet(log, student_id)[student_id]) :
          /\ DefaultGet(log, student_id)[student_id][i].date = date
          /\ DefaultGet(log, student_id)[student_id][i].status = status
    THEN DefaultGet(log, student_id)
    ELSE MarkAppend(DefaultGet(log, student_id), student_id, status, date)

\* mark_attendance(student_id, status) with datetime.now() giving `date`:
\* the ledger afterwards
mark_attendance(log, student_id, status, date) ==
    IF MarkReturnsEarly(log, student_id, status, date)
    THEN MarkRead(log, student_id, status)
    ELSE MarkAppend(MarkRead(log, student_id, status), student_id, status, date)

\* face_recognition.face_distance on the abstract encodings
face_distance(a, b) == IF a[1] >= b[1] THEN a[1] - b[1] ELSE b[1] - a[1]

\* compare_faces with a strict comparison
compare_faces_strict(known, face, tolerance) ==
    [i \in 1..Len(known) |-> face_distance(known[i], face) < tolerance]

\* face_recognition.compare_faces(known, face, tolerance):
\*   list(face_distance(known, face) <= tolerance)
compare_faces(known, face, tolerance) ==
    [i \in 1..Len(known) |-> face_distance(known[i], face) <= tolerance]

\* the last True instead of the first
IndexOfLastTrue(matches) ==
    CHOOSE i \in 1..Len(matches) :
        matches[i] /\ \A j \in (i + 1)..Len(matches) : ~matches[j]

\* matches.index(True), 1-based
IndexOfTrue(matches) ==
    CHOOSE i \in 1..Len(matches) : matches[i] /\ \A j \in 1..(i - 1) : ~matches[j]

\* ------------------------------------------------- take_attendance, lines 97-118
\* lines 101-107: the roster position (1-based) the face is attributed to, 0 if none
MatchFace(studs, face) ==
    LET matches == compare_faces([i \in 1..Len(studs) |-> studs[i].encoding],
                                 face, Tolerance)
    IN  IF TRUE \in Range(matches) THEN IndexOfTrue(matches) ELSE 0

\* the locals of a run: the two name lists, and the record of what the run did
\* (the position each face was attributed to; the mark_attendance calls made,
\* each with the date it read and whether it reached the append of line 40)
NewRun(studs) ==
    [present_students |-> <<>>,
     absent_students  |-> [i \in 1..Len(studs) |-> studs[i].name],
     decisions        |-> <<>>,
     marks            |-> <<>>]

\* lines 108-112: the two lists after the face was attributed to position idx
AttributeLocals(run, studs, idx) ==
    IF idx = 0 \/ studs[idx].name \in Range(run.present_students)
    THEN run
    ELSE [run EXCEPT !.present_students = Append(@, studs[idx].name),
                     !.absent_students = Remove(@, studs[idx].name)]

\* the same, with the attribution recorded
Attribute(run, studs, idx) ==
    [AttributeLocals(run, studs, idx) EXCEPT !.decisions = Append(@, idx)]

\* the call of line 113 made for every attributed face
MarksPresentEveryFace(run, studs, idx) == idx # 0

\* line 109: whether the attribution leads to the call of line 113
MarksPresent(run, studs, idx) ==
    idx # 0 /\ studs[idx].name \notin Range(run.present_students)

\* lines 116-118, one iteration: whether student k is marked Absent
MarksAbsent(run, studs, k) == studs[k].name \notin Range(run.present_students)

\* the call mark_attendance(student_id, status) made by a run: st = [run, log]
Mark(st, student_id, status, date) ==
    TheOnly({[run |-> [st.run EXCEPT !.marks =
                          Append(@, [id |-> student_id, status |-> status,
                                     date |-> date,
                                     appended |-> log # DefaultGet(st.log, student_id)])],
              log |-> log] :
             log \in {mark_attendance(st.log, student_id, status, date)}})

\* lines 101-113: the body of the loop over the faces
FaceStep(st, studs, face, date) ==
    LET idx == MatchFace(studs, face)
        att == [run |-> Attribute(st.run, studs, idx), log |-> st.log]
    IN  IF MarksPresent(st.run, studs, idx)
        THEN Mark(att, studs[idx].id, "Present", date)
        ELSE att

\* lines 100-113: the loop over the faces
RECURSIVE FaceLoop(_, _, _, _)
FaceLoop(st, studs, faces, date) ==
    IF faces = <<>> THEN st
    ELSE TheOnly({FaceLoop(nxt, studs, Tail(faces), date) :
                     nxt \in {FaceStep(st, studs, Head(faces), date)}})

\* the body of the loop marking Absent only a student whose history has no
\* event of the date yet
AbsentStepOncePerDate(st, studs, k, date) ==
    IF /\ MarksAbsent(st.run, studs, k)
       /\ \A i \in 1..Len(DefaultGet(st.log, studs[k].id)[studs[k].id]) :
              DefaultGet(st.log, studs[k].id)[studs[k].id][i].date # date
    THEN Mark(st, studs[k].id, "Absent", date)
    ELSE st

\* lines 117-118: the body of the loop over the roster, at position k
AbsentStep(st, studs, k, date) ==
    IF MarksAbsent(st.run, studs, k)
    THEN Mark(st, studs[k].id, "Absent", date)
    ELSE st

\* lines 116-118: the loop over the roster, from position k
RECURSIVE AbsentLoop(_, _, _, _)
AbsentLoop(st, studs, k, date) ==
    IF k > Len(studs) THEN st
    ELSE TheOnly({AbsentLoop(nxt, studs, k + 1, date) :
                     nxt \in {AbsentStep(st, studs, k, date)}})

\* the test of line 79 left out
RosterNeverEmpty(studs) == FALSE

\* line 79: if not students
RosterEmpty(studs) == studs = <<>>

\* a frame is a missing upload, an undecodable image, or the faces found in it
RECURSIVE SeqsUpTo(_, _)
SeqsUpTo(S, n) ==
    IF n = 0 THEN {<<>>}
    ELSE SeqsUpTo(S, n - 1) \cup
         {Append(s, x) : s \in {t \in SeqsUpTo(S, n - 1) : Len(t) = n - 1}, x \in S}

Frames ==
    {[upload |-> u, faces |-> <<>>] : u \in {"missing", "undecodable"}} \cup
    {[upload |-> "image", faces |-> f] : f \in SeqsUpTo(FaceEncodings, MaxFaces)}

\* an error response: jsonify({"error": ...}), status
Error(op, status, error) ==
    [op |-> op, status |-> status, error |-> error]

\* the whole handler on a frame, the date being `date` throughout:
\* [log, resp]
take_attendance_result(studs, log, frame, date) ==
    IF RosterEmpty(studs)
    THEN [log |-> log, resp |-> Error("take_attendance", 400, EmptyRoster)]
    ELSE IF frame.upload = "missing"
    THEN [log |-> log, resp |-> Error("take_attendance", 400, NoFrameUploaded)]
    ELSE IF frame.upload = "undecodable"
    THEN [log |-> log, resp |-> Error("take_attendance", 400, FailedToReadImage)]
    ELSE TheOnly({
           [log  |-> b.log,
            resp |-> [op |-> "take_attendance", status |-> 200, error |-> None,
                      date |-> date, faces |-> frame.faces,
                      present_students |-> b.run.present_students,
                      absent_students |-> b.run.absent_students,
                      decisions |-> b.run.decisions,
                      marks |-> b.run.marks]] :
           b \in {AbsentLoop(FaceLoop([run |-> NewRun(studs), log |-> log],
                                      studs, frame.faces, date),
                             studs, 1, date)}})

\* The roster and the histories grow without bound in the program.  The model
\* serves a registration or an attendance run only while roster length +
\* longest history is below MaxSize.
Longest(log) ==
    IF DOMAIN log = {} THEN 0
    ELSE CHOOSE n \in 0..MaxSize : /\ \E k \in DOMAIN log : Len(log[k]) = n
                                   /\ \A k \in DOMAIN log : Len(log[k]) <= n

Room == Len(students) + Longest(attendance_log) < MaxSize

\* datetime.now() is read by mark_attendance only: the date a run sees is the
\* date the run before saw, or a later one (the next day number)
take_attendance ==
    \E frame \in Frames, date \in {today, today + 1} :
        /\ Room
        /\ \E r \in {take_attendance_result(students, attendance_log, frame, date)} :
               /\ attendance_log' = r.log
               /\ resp' = r.resp
               /\ today' = IF r.resp.status = 200 THEN date ELSE today
        /\ UNCHANGED <<students, req>>

\* ------------------------------------------------- register_student, lines 44-74
\* the id taken as the roster length
NewStudentIdFromZero(studs) == Len(studs)

\* line 63
NewStudentId(studs) == Len(studs) + 1

\* line 70 left out
InitLedgerSkipped(log, student_id) == log

\* line 70
InitLedger(log, student_id) == SetItem(log, student_id, <<>>)

\* the ledger entry of line 70 created before the test of line 59
RegisterRejectedAfterInit(studs, log) ==
    [students |-> studs, attendance_log |-> SetItem(log, Len(studs) + 1, <<>>)]

\* lines 59-61: the roster and the ledger after a photo without a face
RegisterRejected(studs, log) == [students |-> studs, attendance_log |-> log]

\* lines 63-70
RegisterAccepted(studs, log, student_name, encoding) ==
    LET student_id == NewStudentId(studs)
    IN  [students |-> Append(studs, [id |-> student_id, name |-> student_name,
                                      encoding |-> encoding]),
         attendance_log |-> InitLedger(log, student_id)]

register_student ==
    \E student_name \in Names \cup {""}, encoding \in Encodings \cup {NoEncoding} :
        /\ Room
        /\ IF student_name = ""
           THEN /\ resp' = [op |-> "register", status |-> 400,
                            error |-> NameAndPhotoRequired,
                            student_name |-> student_name, encoding |-> encoding]
                /\ UNCHANGED <<students, attendance_log>>
           ELSE IF encoding = NoEncoding
           THEN /\ students' = RegisterRejected(students, attendance_log).students
                /\ attendance_log' = RegisterRejected(students, attendance_log).attendance_log
                /\ resp' = [op |-> "register", status |-> 400, error |-> NoFaceDetected,
                            student_name |-> student_name, encoding |-> encoding]
           ELSE LET r == RegisterAccepted(students, attendance_log, student_name, encoding)
                IN  /\ students' = r.students
                    /\ attendance_log' = r.attendance_log
                    /\ resp' = [op |-> "register", status |-> 200, error |-> None,
                                student_name |-> student_name, encoding |-> encoding,
                                id |-> NewStudentId(students)]
        /\ UNCHANGED <<today, req>>

\* ------------------------------------- get_attendance_graph, send_report
\* the ids a request may name, registered or not; a request without an id
\* (student_id None) behaves as id 0, which is never a key
RequestIds == 0..(Len(students) + 1)

\* the lookup done by indexing the defaultdict, which creates the key
LookupByIndexing(log, student_id) ==
    [found |-> student_id \in DOMAIN DefaultGet(log, student_id),
     log |-> DefaultGet(log, student_id)]

\* line 137 and line 184: `student_id not in attendance_log`, a membership
\* test, which creates no key: whether the id is a key, and the ledger afterwards
Lookup(log, student_id) ==
    [found |-> student_id \in DOMAIN log, log |-> log]

\* ---- the aggregations of lines 142-157
\* the key of line 154 used for the key of line 145
WholeDate(date) == date

\* line 145: log["date"][:7], the "%Y-%m" prefix of the date: the month
\* number of a day number
MonthOf(date) == (date - 1) \div DaysPerMonth + 1

\* lines 145-146 and line 154: the key an event is counted under
KeyOf(view, date) == IF view = "monthly" THEN MonthOf(date) ELSE date

\* lines 143 and 152: the default of date_status
ZeroCounts == [Present |-> 0, Absent |-> 0]

\* date_status, a dict: its keys in insertion order, and the counters of each
EmptyDateStatus == [keys |-> <<>>, counts |-> <<>>]

\* lines 146 and 154: date_status[key][status] += 1, a missing key being
\* created with zero counters
Increment(date_status, key, status) ==
    LET seen == key \in Range(date_status.keys)
        old  == IF seen THEN date_status.counts[key] ELSE ZeroCounts
    IN  [keys   |-> IF seen THEN date_status.keys
                    ELSE Append(date_status.keys, key),
         counts |-> [k \in DOMAIN date_status.counts \cup {key} |->
                        IF k = key THEN [old EXCEPT ![status] = @ + 1]
                        ELSE date_status.counts[k]]]

\* lines 144-146 and 153-154: the loop over the history, after n events
RECURSIVE DateStatus(_, _, _)
DateStatus(history, view, n) ==
    IF n = 0 THEN EmptyDateStatus
    ELSE TheOnly({Increment(ds, KeyOf(view, history[n].date), history[n].status) :
                     ds \in {DateStatus(history, view, n - 1)}})

\* the keys as the dict gives them, in insertion order
unsorted(keys) == keys

\* lines 147 and 155: sorted(date_status.keys()), ascending
RECURSIVE sorted(_)
sorted(keys) ==
    IF keys = <<>> THEN <<>>
    ELSE LET least == CHOOSE x \in Range(keys) : \A y \in Range(keys) : x <= y
         IN  <<least>> \o sorted(Remove(keys, least))

\* lines 142-157: labels, present_counts and absent_counts of a history
Series(history, view) ==
    TheOnly({TheOnly({[labels |-> labels,
                       present_counts |->
                           [i \in 1..Len(labels) |-> ds.counts[labels[i]].Present],
                       absent_counts |->
                           [i \in 1..Len(labels) |-> ds.counts[labels[i]].Absent]] :
                      labels \in {sorted(ds.keys)}}) :
             ds \in {DateStatus(history, view, Len(history))}})

Views == {"daily", "monthly"}

\* lines 133-157; each response is given with the id and the view the request
\* named, and the series that is plotted
get_attendance_graph ==
    \E student_id \in RequestIds, view \in Views :
        /\ \E l \in {Lookup(attendance_log, student_id)} :
               /\ attendance_log' = l.log
               /\ resp' = IF ~l.found
                          THEN [op |-> "get_attendance_graph", status |-> 404,
                                error |-> StudentNotFound, id |-> student_id]
                          ELSE [op |-> "get_attendance_graph", status |-> 200,
                                error |-> None, id |-> student_id, view |-> view,
                                series |-> Series(l.log[student_id], view)]
        /\ UNCHANGED <<students, today, req>>

\* ---- the summary of lines 202-204
\* sum(1 for log in logs if log["status"] == status)
RECURSIVE CountStatus(_, _)
CountStatus(logs, status) ==
    IF logs = <<>> THEN 0
    ELSE (IF Head(logs).status = status THEN 1 ELSE 0)
         + CountStatus(Tail(logs), status)

\* len(logs) where line 204 has max(len(logs), 1)
first(a, b) == a

\* max(a, b)
max(a, b) == IF a >= b THEN a ELSE b

\* lines 202-204.  The percentage (total_present / max(len(logs), 1)) * 100 is
\* kept as the fraction num / den; a division by den = 0 raises
\* ZeroDivisionError.
Summary(logs) ==
    [total_present |-> CountStatus(logs, "Present"),
     total_absent  |-> CountStatus(logs, "Absent"),
     percentage    |-> [num |-> CountStatus(logs, "Present") * 100,
                        den |-> max(Len(logs), 1)]]

\* lines 180-204 and 226-227: students[student_id - 1] outside the roster
\* raises IndexError, and a division by zero ZeroDivisionError, which the
\* handler turns into a 500; the response is given with the id the request
\* named, the student the report is written for, and the summary
send_report ==
    \E student_id \in RequestIds :
        /\ \E l \in {Lookup(attendance_log, student_id)} :
               /\ attendance_log' = IF student_id = 0 THEN attendance_log ELSE l.log
               /\ resp' = IF student_id = 0 \/ ~l.found
                          THEN [op |-> "send_report", status |-> 400,
                                error |-> InvalidStudent, id |-> student_id]
                          ELSE IF student_id > Len(students)
                          THEN [op |-> "send_report", status |-> 500,
                                error |-> FailedToGenerateReport, id |-> student_id]
                          ELSE TheOnly({
                                 IF summary.percentage.den = 0
                                 THEN [op |-> "send_report", status |-> 500,
                                       error |-> FailedToGenerateReport,
                                       id |-> student_id]
                                 ELSE [op |-> "send_report", status |-> 200,
                                       error |-> None, id |-> student_id,
                                       student |-> students[student_id],
                                       summary |-> summary] :
                                 summary \in {Summary(l.log[student_id])}})
        /\ UNCHANGED <<students, today, req>>

Requests == 1..NumRequests

Idle == [pc |-> "idle"]

\* lines 25-26
Init ==
    /\ students = <<>>
    /\ attendance_log = <<>>
    /\ today = 1
    /\ resp = [op |-> None]
    /\ req = [t \in Requests |-> Idle]

Next ==
    \/ register_student
    \/ take_attendance
    \/ get_attendance_graph
    \/ send_report

Spec == Init /\ [][Next]_vars

\* ------------------------------------------------------------------------
\* Requests served at once.  app.run() serves each request on a thread of its
\* own, so the handlers interleave between their accesses to the two globals.
\* A step of a request is one access to `students` or `attendance_log`,
\* together with the work on locals that leads to it.  The requests in flight
\* are served within one date, their frames hold at most one face, and of a
\* response only the status and the error are kept.

Done(response) ==
    [pc |-> "done", op |-> response.op, status |-> response.status,
     error |-> response.error]

\* request t + 1 arrives after request t
Arrives(t) ==
    /\ req[t].pc = "idle"
    /\ \A u \in Requests : u < t => req[u].pc # "idle"

ConcFrames == {frame \in Frames : Len(frame.faces) <= 1}

\* the locals of a run that line 109 and line 117 read
Locals(run) ==
    [present_students |-> run.present_students,
     absent_students |-> run.absent_students]

\* register_student up to line 63: the request is refused, or reads the
\* roster length
RegisterStart(t) ==
    /\ Arrives(t)
    /\ \E student_name \in Names \cup {""}, encoding \in Encodings \cup {NoEncoding} :
          req' = [req EXCEPT ![t] =
                     IF student_name = ""
                     THEN Done(Error("register", 400, NameAndPhotoRequired))
                     ELSE IF encoding = NoEncoding
                     THEN Done(Error("register", 400, NoFaceDetected))
                     ELSE [pc |-> "register_append", student_name |-> student_name,
                           encoding |-> encoding,
                           student_id |-> NewStudentId(students)]]
    /\ UNCHANGED <<students, attendance_log, today, resp>>

\* lines 64-69
RegisterAppend(t) ==
    /\ req[t].pc = "register_append"
    /\ students' = Append(students, [id |-> req[t].student_id,
                                     name |-> req[t].student_name,
                                     encoding |-> req[t].encoding])
    /\ req' = [req EXCEPT ![t].pc = "register_init"]
    /\ UNCHANGED <<attendance_log, today, resp>>

\* lines 70-72
RegisterInit(t) ==
    /\ req[t].pc = "register_init"
    /\ attendance_log' = InitLedger(attendance_log, req[t].student_id)
    /\ req' = [req EXCEPT ![t] =
                  Done([op |-> "register", status |-> 200, error |-> None,
                        id |-> req[t].student_id])]
    /\ UNCHANGED <<students, today, resp>>

\* take_attendance up to line 98
TakeStart(t) ==
    /\ Arrives(t)
    /\ \E frame \in ConcFrames :
          req' = [req EXCEPT ![t] =
                     IF RosterEmpty(students)
                     THEN Done(Error("take_attendance", 400, EmptyRoster))
                     ELSE IF frame.upload = "missing"
                     THEN Done(Error("take_attendance", 400, NoFrameUploaded))
                     ELSE IF frame.upload = "undecodable"
                     THEN Done(Error("take_attendance", 400, FailedToReadImage))
                     ELSE [pc |-> "faces", faces |-> frame.faces,
                           run |-> Locals(NewRun(students))]]
    /\ UNCHANGED <<students, attendance_log, today, resp>>

\* lines 100-113, one face, up to the call of mark_attendance; after the last
\* face the run goes on to line 116
TakeFace(t) ==
    /\ req[t].pc = "faces"
    /\ IF req[t].faces = <<>>
       THEN req' = [req EXCEPT ![t] = [pc |-> "absent", run |-> req[t].run, k |-> 1]]
       ELSE \E idx \in {MatchFace(students, Head(req[t].faces))} :
               \E run \in {AttributeLocals(req[t].run, students, idx)} :
                  req' = [req EXCEPT ![t] =
                             IF MarksPresent(req[t].run, students, idx)
                             THEN [pc |-> "mark", faces |-> Tail(req[t].faces),
                                   run |-> run, student_id |-> students[idx].id]
                             ELSE [pc |-> "faces", faces |-> Tail(req[t].faces),
                                   run |-> run]]
    /\ UNCHANGED <<students, attendance_log, today, resp>>

\* mark_attendance(student_id, "Present"), lines 37-39: the history is searched
MarkCheck(t) ==
    /\ req[t].pc = "mark"
    /\ attendance_log' = MarkRead(attendance_log, req[t].student_id, "Present")
    /\ req' = [req EXCEPT ![t] =
                  IF MarkReturnsEarly(attendance_log, req[t].student_id,
                                      "Present", today)
                  THEN [pc |-> "faces", faces |-> req[t].faces, run |-> req[t].run]
                  ELSE [pc |-> "mark_append", faces |-> req[t].faces,
                        run |-> req[t].run, student_id |-> req[t].student_id]]
    /\ UNCHANGED <<students, today, resp>>

\* mark_attendance(student_id, "Present"), line 40
MarkPresentAppend(t) ==
    /\ req[t].pc = "mark_append"
    /\ attendance_log' = MarkAppend(attendance_log, req[t].student_id, "Present",
                                    today)
    /\ req' = [req EXCEPT ![t] =
                  [pc |-> "faces", faces |-> req[t].faces, run |-> req[t].run]]
    /\ UNCHANGED <<students, today, resp>>

\* lines 116-123, one student of the roster as it is now (the call of
\* mark_attendance(id, "Absent") included: it reads no history), or the
\* response after the last one
TakeAbsent(t) ==
    /\ req[t].pc = "absent"
    /\ IF req[t].k > Len(students)
       THEN /\ req' = [req EXCEPT ![t] =
                          Done([op |-> "take_attendance", status |-> 200,
                                error |-> None])]
            /\ UNCHANGED attendance_log
       ELSE IF MarksAbsent(req[t].run, students, req[t].k)
       THEN /\ attendance_log' = mark_attendance(attendance_log,
                                     students[req[t].k].id, "Absent", today)
            /\ req' = [req EXCEPT ![t].k = @ + 1]
       ELSE /\ req' = [req EXCEPT ![t].k = @ + 1]
            /\ UNCHANGED attendance_log
    /\ UNCHANGED <<students, today, resp>>

\* get_attendance_graph and send_report up to lines 138 and 185: one test of
\* the ledger's keys
ReadRequest(t) ==
    /\ Arrives(t)
    /\ \E student_id \in RequestIds, op \in {"get_attendance_graph", "send_report"} :
          \E l \in {Lookup(attendance_log, student_id)} :
             /\ attendance_log' = l.log
             /\ req' = [req EXCEPT ![t] =
                           Done(IF op = "get_attendance_graph" /\ ~l.found
                                THEN [op |-> op, status |-> 404,
                                      error |-> StudentNotFound, id |-> student_id]
                                ELSE IF op = "send_report" /\ (student_id = 0 \/ ~l.found)
                                THEN [op |-> op, status |-> 400,
                                      error |-> InvalidStudent, id |-> student_id]
                                ELSE IF op = "send_report" /\ student_id > Len(students)
                                THEN [op |-> op, status |-> 500,
                                      error |-> FailedToGenerateReport,
                                      id |-> student_id]
                                ELSE [op |-> op, status |-> 200, error |-> None,
                                      id |-> student_id])]
    /\ UNCHANGED <<students, today, resp>>

\* the requests arrive at a server that has registered at most one student
InitConc ==
    /\ \E r \in {[students |-> <<>>, attendance_log |-> <<>>]} \cup
                {RegisterAccepted(<<>>, <<>>, n, e) : n \in Names, e \in Encodings} :
          /\ students = r.students
          /\ attendance_log = r.attendance_log
    /\ today = 1
    /\ resp = [op |-> None]
    /\ req = [t \in Requests |-> Idle]

NextConc ==
    \E t \in Requests :
        \/ RegisterStart(t)
        \/ RegisterAppend(t)
        \/ RegisterInit(t)
        \/ TakeStart(t)
        \/ TakeFace(t)
        \/ MarkCheck(t)
        \/ MarkPresentAppend(t)
        \/ TakeAbsent(t)
        \/ ReadRequest(t)

SpecConc == InitConc /\ [][NextConc]_vars

\* ------------------------------------------------------------------------
\* The ledger and its aggregations as functions of the marks.  One student is
\* registered; mark_attendance is called for it with either status at any
\* date of the calendar, in any order (datetime.now() follows the system
\* clock, which can be set back), and the series and the report are asked for
\* between the calls.

\* lines 35-40, one call
MarkCall ==
    \E student_id \in {students[i].id : i \in 1..Len(students)},
       status \in {"Present", "Absent"}, date \in 1..MaxDate :
        /\ \A k \in DOMAIN attendance_log : Len(attendance_log[k]) < MaxHistory
        /\ attendance_log' = mark_attendance(attendance_log, student_id, status, date)
        /\ today' = date
        /\ resp' = [op |-> "mark_attendance", id |-> student_id, mark |-> status,
                    date |-> date]
        /\ UNCHANGED <<students, req>>

InitAggregate ==
    /\ \E r \in {RegisterAccepted(<<>>, <<>>, "A", <<0>>)} :
          /\ students = r.students
          /\ attendance_log = r.attendance_log
    /\ today = 1
    /\ resp = [op |-> None]
    /\ req = [t \in Requests |-> Idle]

NextAggregate ==
    \/ MarkCall
    \/ get_attendance_graph
    \/ send_report

SpecAggregate == InitAggregate /\ [][NextAggregate]_vars

\* ================================================================ claims
RosterIds == {students[i].id : i \in 1..Len(students)}

PresentOn(h, date) ==
    {i \in 1..Len(h) : h[i].date = date /\ h[i].status = "Present"}

RunDone == resp.op = "take_attendance" /\ resp.status = 200

\* C1: under sequential requests no history ever holds two Present events of
\* one date, and a run that calls mark_attendance(id, "Present") for an
\* identity already Present on the run's date leaves that identity's history
\* as it was.
C1_PresentOncePerDate ==
    [][/\ \A k \in DOMAIN attendance_log' : \A d \in 1..today' :
             Cardinality(PresentOn(attendance_log'[k], d)) <= 1
       /\ (resp'.op = "take_attendance" /\ resp'.status = 200) =>
             \A k \in DOMAIN attendance_log :
                 (/\ \E n \in 1..Len(resp'.marks) :
                        resp'.marks[n].id = k /\ resp'.marks[n].status = "Present"
                  /\ PresentOn(attendance_log[k], resp'.date) # {})
                 => attendance_log'[k] = attendance_log[k]]_vars

\* C1 witness: a run has called mark_attendance(id, "Present") for an identity
\* that was already Present on that date, and the call returned at line 39.
C1_Witness ==
    /\ RunDone
    /\ \E n \in 1..Len(resp.marks) :
          /\ resp.marks[n].status = "Present"
          /\ ~resp.marks[n].appended
          /\ Cardinality(PresentOn(attendance_log[resp.marks[n].id], resp.date)) = 1

\* C2 (as claimed): after a run every registered identity is in exactly one of
\* the returned present and absent lists.
C2_PresentAbsentPartition ==
    RunDone =>
        \A i \in 1..Len(students) :
            (students[i].name \in Range(resp.present_students))
                # (students[i].name \in Range(resp.absent_students))

\* C3 (as claimed): interleaved registrations give pairwise distinct ids, in
\* strictly increasing order along the roster.
C3_IdsDistinctAndIncreasing ==
    \A i \in 1..Len(students) : \A j \in 1..Len(students) :
        i < j => students[i].id < students[j].id

\* C4 (as claimed): interleaved runs of one date leave at most one Present
\* event of that date in every history.
C4_PresentOncePerDateInterleaved ==
    \A k \in DOMAIN attendance_log :
        Cardinality(PresentOn(attendance_log[k], today)) <= 1

\* the distance of face n of the last run to the roster identity at position i
RunDistance(n, i) == face_distance(students[i].encoding, resp.faces[n])

C6_FirstInRosterOrderWins ==
    RunDone =>
        /\ \A n \in 1..Len(resp.faces) :
              LET within == {i \in 1..Len(students) : RunDistance(n, i) <= Tolerance}
              IN  within # {} =>
                      /\ resp.decisions[n] \in within
                      /\ \A i \in within : resp.decisions[n] <= i
        /\ \A m \in 1..Len(resp.marks) :
              resp.marks[m].status = "Present" =>
                  \E n \in 1..Len(resp.faces) :
                      /\ resp.decisions[n] # 0
                      /\ students[resp.decisions[n]].id = resp.marks[m].id
        /\ Cardinality({m \in 1..Len(resp.marks) : resp.marks[m].status = "Present"})
              <= Cardinality({n \in 1..Len(resp.faces) : resp.decisions[n] # 0})

\* C6 witness: a face was attributed to an identity although a later roster
\* identity is strictly closer to it, and only the first was marked Present.
C6_Witness ==
    /\ RunDone
    /\ \E n \in 1..Len(resp.faces) : \E j \in 1..Len(students) :
          /\ resp.decisions[n] # 0
          /\ resp.decisions[n] < j
          /\ RunDistance(n, j) < RunDistance(n, resp.decisions[n])
          /\ RunDistance(n, resp.decisions[n]) < Tolerance
          /\ \E m \in 1..Len(resp.marks) :
                /\ resp.marks[m].status = "Present"
                /\ resp.marks[m].id = students[resp.decisions[n]].id
          /\ \E m \in 1..Len(resp.marks) :
                /\ resp.marks[m].status = "Absent"
                /\ resp.marks[m].id = students[j].id

\* C7: take_attendance on an empty roster answers "No students registered"
\* and leaves the roster and the ledger as they were.
C7_EmptyRosterRejected ==
    [][(students = <<>> /\ resp'.op = "take_attendance") =>
           /\ resp'.status = 400
           /\ resp'.error = EmptyRoster
           /\ students' = students
           /\ attendance_log' = attendance_log]_vars

\* C7 witness: a run was refused on the empty roster.
C7_Witness ==
    /\ resp.op = "take_attendance"
    /\ resp.error = EmptyRoster
    /\ students = <<>>
    /\ DOMAIN attendance_log = {}

\* C8: a registration with a name whose photo has no encoding answers
\* "No face detected" and changes neither the roster nor the ledger, and every
\* accepted registration gets the id roster length + 1, so the rejected one
\* consumed none.
C8_NoFaceRegistrationChangesNothing ==
    [][resp'.op = "register" =>
           /\ (resp'.student_name # "" /\ resp'.encoding = NoEncoding) =>
                 /\ resp'.status = 400
                 /\ resp'.error = NoFaceDetected
                 /\ students' = students
                 /\ attendance_log' = attendance_log
           /\ resp'.status = 200 =>
                 /\ resp'.id = Len(students) + 1
                 /\ Len(students') = Len(students) + 1
                 /\ students'[Len(students')].id = resp'.id]_vars

\* C8 witness: a registration was rejected for want of a face while the roster
\* already held an identity.
C8_Witness ==
    /\ resp.op = "register"
    /\ resp.error = NoFaceDetected
    /\ students # <<>>

\* C9: get_attendance_graph and send_report for an id that is not in the
\* roster answer "Student not found" (404) and "Invalid student" (400), and the
\* ledger is unchanged: the id is still not one of its keys.
C9_UnknownIdentityRejected ==
    [][(resp'.op \in {"get_attendance_graph", "send_report"}
        /\ resp'.id \notin RosterIds) =>
           /\ resp'.op = "get_attendance_graph" =>
                 resp'.status = 404 /\ resp'.error = StudentNotFound
           /\ resp'.op = "send_report" =>
                 resp'.status = 400 /\ resp'.error = InvalidStudent
           /\ attendance_log' = attendance_log
           /\ resp'.id \notin DOMAIN attendance_log']_vars

\* C9 witness: the series or the report was asked for an id above every
\* registered id, while the ledger holds events.
C9_Witness ==
    /\ resp.op \in {"get_attendance_graph", "send_report"}
    /\ resp.status # 200
    /\ students # <<>>
    /\ resp.id = Len(students) + 1
    /\ \E k \in DOMAIN attendance_log : attendance_log[k] # <<>>

\* C10: however the requests interleave, every key of the ledger is the id of
\* a roster identity, and every roster identity has a ledger entry unless its
\* registration has not yet reached line 70.
C10_LedgerKeysAreRosterIds ==
    /\ DOMAIN attendance_log \subseteq RosterIds
    /\ \A i \in 1..Len(students) :
          \/ students[i].id \in DOMAIN attendance_log
          \/ \E t \in Requests :
                /\ req[t].pc = "register_init"
                /\ req[t].student_id = students[i].id

\* C10 witness: a registration has completed among other requests, and a run
\* has written an event.
C10_Witness ==
    /\ \E t \in Requests :
          req[t].pc = "done" /\ req[t].op = "register" /\ req[t].status = 200
    /\ \E t \in Requests : req[t].pc \in {"faces", "absent", "done"}
                             /\ (req[t].pc = "done" => req[t].op = "take_attendance")
    /\ \E k \in DOMAIN attendance_log : attendance_log[k] # <<>>
    /\ Len(students) >= 2

\* the response is a series of the given view
SeriesDone(response, view) ==
    /\ response.op = "get_attendance_graph"
    /\ response.status = 200
    /\ response.view = view

Present1Absent2 ==
    <<[status |-> "Present", date |-> 1], [status |-> "Absent", date |-> 2]>>

\* C11: the daily series of a stored history has one bucket for each distinct
\* date of the history, in ascending order of date, whose present and absent
\* counts are the numbers of stored Present and Absent events of that date;
\* a Present mark for date 1 on the history Present 1, Absent 2 stores
\* nothing, and the series of that history is (1,1,0), (2,0,1).
C11_DailyBuckets ==
    [][/\ SeriesDone(resp', "daily") =>
             LET h == attendance_log'[resp'.id]
                 s == resp'.series
                 dates == {h[n].date : n \in 1..Len(h)}
             IN  /\ Len(s.labels) = Cardinality(dates)
                 /\ Range(s.labels) = dates
                 /\ DOMAIN s.present_counts = 1..Len(s.labels)
                 /\ DOMAIN s.absent_counts = 1..Len(s.labels)
                 /\ \A i \in 1..Len(s.labels) : \A j \in 1..Len(s.labels) :
                       i < j => s.labels[i] < s.labels[j]
                 /\ \A i \in 1..Len(s.labels) :
                       /\ s.present_counts[i] =
                             Cardinality({n \in 1..Len(h) :
                                 h[n].date = s.labels[i] /\ h[n].status = "Present"})
                       /\ s.absent_counts[i] =
                             Cardinality({n \in 1..Len(h) :
                                 h[n].date = s.labels[i] /\ h[n].status = "Absent"})
                 /\ h = Present1Absent2 =>
                       /\ s.labels = <<1, 2>>
                       /\ s.present_counts = <<1, 0>>
                       /\ s.absent_counts = <<0, 1>>
       /\ (/\ resp'.op = "mark_attendance"
           /\ resp'.mark = "Present"
           /\ resp'.date = 1
           /\ attendance_log[resp'.id] = Present1Absent2)
          => attendance_log'[resp'.id] = Present1Absent2]_vars

\* C11 witness: the daily series was asked for after the marks Present 1,
\* Absent 2, Present 1 (the clock is back at date 1 and the last mark stored
\* nothing), and is (1,1,0), (2,0,1).
C11_Witness ==
    /\ SeriesDone(resp, "daily")
    /\ attendance_log[resp.id] = Present1Absent2
    /\ today = 1
    /\ resp.series.labels = <<1, 2>>
    /\ resp.series.present_counts = <<1, 0>>
    /\ resp.series.absent_counts = <<0, 1>>

\* day number d has the year-month prefix number m
InMonth(d, m) == (m - 1) * DaysPerMonth < d /\ d <= m * DaysPerMonth

\* the sum of counts[i] over the positions i of S
RECURSIVE SumOver(_, _)
SumOver(counts, S) ==
    IF S = {} THEN 0
    ELSE LET i == CHOOSE x \in S : TRUE
         IN  counts[i] + SumOver(counts, S \ {i})

\* C12: the monthly series of a stored history has one bucket for each
\* distinct year-month of the history's dates, in ascending order, and the
\* present and absent counts of a month's bucket are the sums of the daily
\* buckets' counts over the dates of that month.
C12_MonthlyBuckets ==
    SeriesDone(resp, "monthly") =>
        LET h == attendance_log[resp.id]
            s == resp.series
            daily == Series(h, "daily")
            months == {m \in 1..MaxDate : \E n \in 1..Len(h) : InMonth(h[n].date, m)}
        IN  /\ Len(s.labels) = Cardinality(months)
            /\ Range(s.labels) = months
            /\ DOMAIN s.present_counts = 1..Len(s.labels)
            /\ DOMAIN s.absent_counts = 1..Len(s.labels)
            /\ \A i \in 1..Len(s.labels) : \A j \in 1..Len(s.labels) :
                  i < j => s.labels[i] < s.labels[j]
            /\ \A i \in 1..Len(s.labels) :
                  LET days == {j \in 1..Len(daily.labels) :
                                  InMonth(daily.labels[j], s.labels[i])}
                  IN  /\ s.present_counts[i] = SumOver(daily.present_counts, days)
                      /\ s.absent_counts[i] = SumOver(daily.absent_counts, days)

\* C12 witness: a monthly series of two months, one of them with events of
\* two dates, stored out of date order.
C12_Witness ==
    /\ SeriesDone(resp, "monthly")
    /\ Len(resp.series.labels) = 2
    /\ LET h == attendance_log[resp.id]
       IN  /\ \E n \in 1..Len(h) : \E k \in 1..Len(h) :
                 /\ h[n].date # h[k].date
                 /\ \E m \in 1..MaxDate : InMonth(h[n].date, m) /\ InMonth(h[k].date, m)
           /\ \E n \in 1..Len(h) : \E k \in 1..Len(h) : n < k /\ h[n].date > h[k].date
    /\ \E i \in 1..2 : resp.series.present_counts[i] + resp.series.absent_counts[i] >= 2

\* C13: the report of a registered identity never fails on a division; its
\* total_present and total_absent are the numbers of Present and Absent events
\* of the history, which sum to its length, and its percentage is
\* total_present * 100 / max(length, 1): 0, 0 and 0 for the empty history, and
\* 75 for three Present events and one Absent event.
C13_Summary ==
    (/\ resp.op = "send_report"
     /\ resp.id \in DOMAIN attendance_log
     /\ resp.id \in 1..Len(students)) =>
        /\ resp.status = 200
        /\ LET h == attendance_log[resp.id]
               sm == resp.summary
               presents == Cardinality({n \in 1..Len(h) : h[n].status = "Present"})
               absents == Cardinality({n \in 1..Len(h) : h[n].status = "Absent"})
           IN  /\ sm.total_present = presents
               /\ sm.total_absent = absents
               /\ sm.total_present + sm.total_absent = Len(h)
               /\ sm.percentage.den # 0
               /\ sm.percentage.num * (IF Len(h) = 0 THEN 1 ELSE Len(h))
                     = presents * 100 * sm.percentage.den
               /\ h = <<>> =>
                     /\ sm.total_present = 0
                     /\ sm.total_absent = 0
                     /\ sm.percentage.num = 0
               /\ (presents = 3 /\ absents = 1) =>
                     sm.percentage.num = 75 * sm.percentage.den

\* C13 witness: the report of a history of three Present events and one
\* Absent event gives 3, 1 and 75.
C13_Witness ==
    /\ resp.op = "send_report"
    /\ resp.status = 200
    /\ Len(attendance_log[resp.id]) = 4
    /\ resp.summary.total_present = 3
    /\ resp.summary.total_absent = 1
    /\ resp.summary.percentage.num = 75 * resp.summary.percentage.den

\* the Absent marks the last run made for identity k
AbsentMarks(response, k) ==
    {n \in 1..Len(response.marks) :
        response.marks[n].id = k /\ response.marks[n].status = "Absent"}

AbsentOn(h, date) ==
    {i \in 1..Len(h) : h[i].date = date /\ h[i].status = "Absent"}

IsPrefix(h, g) == Len(h) <= Len(g) /\ \A i \in 1..Len(h) : g[i] = h[i]

\* C15 (as claimed): however register and take_attendance requests
\* interleave, every step leaves each identity's history with the history
\* before the step as a prefix.
C15_AppendOnlyInterleaved ==
    [][\A k \in DOMAIN attendance_log :
           /\ k \in DOMAIN attendance_log'
           /\ IsPrefix(attendance_log[k], attendance_log'[k])]_vars

\* the Present marks the last run made for identity k
PresentMarks(response, k) ==
    {n \in 1..Len(response.marks) :
        response.marks[n].id = k /\ response.marks[n].status = "Present"}

\* the faces of the last run attributed to roster position i
FacesOf(response, i) ==
    {n \in 1..Len(response.decisions) : response.decisions[n] = i}

\* C16: in one run, however many faces are attributed to an identity, the
\* returned present list holds no entry twice, holds the identity's name, and
\* the run calls mark_attendance(id, "Present") for it at most once.
C16_PresentOncePerRun ==
    RunDone =>
        /\ \A i \in 1..Len(resp.present_students) :
              \A j \in 1..Len(resp.present_students) :
                 resp.present_students[i] = resp.present_students[j] => i = j
        /\ \A i \in 1..Len(students) :
              /\ Cardinality(PresentMarks(resp, students[i].id)) <= 1
              /\ FacesOf(resp, i) # {} =>
                    Cardinality({j \in 1..Len(resp.present_students) :
                                    resp.present_students[j] = students[i].name}) = 1

\* C16 witness: two faces of one frame were attributed to the same identity,
\* which is returned once and was marked Present once.
C16_Witness ==
    /\ RunDone
    /\ \E i \in 1..Len(students) :
          /\ Cardinality(FacesOf(resp, i)) >= 2
          /\ Cardinality(PresentMarks(resp, students[i].id)) = 1
          /\ resp.present_students = <<students[i].name>>

C18_EveryIdentityMarked ==
    RunDone =>
        \A i \in 1..Len(students) :
            LET h == attendance_log[students[i].id]
            IN  /\ \E n \in 1..Len(h) : h[n].date = resp.date
                /\ students[i].name \in Range(resp.present_students) =>
                      PresentOn(h, resp.date) # {}

\* C19: under sequential requests the identity at roster position i (from 0)
\* has id i + 1, every key of the ledger is a roster position, and the
\* student send_report reads at students[student_id - 1] has the id the
\* request named.
C19_RosterPositionIsId ==
    /\ \A i \in 1..Len(students) : students[i].id = i
    /\ \A k \in DOMAIN attendance_log :
          k \in 1..Len(students) /\ students[k].id = k
    /\ (resp.op = "send_report" /\ resp.id \in DOMAIN attendance_log) =>
          /\ resp.status = 200
          /\ resp.student.id = resp.id
          /\ resp.student = students[resp.id]

\* C19 witness: a report was written for the second of two registered
\* identities.
C19_Witness ==
    /\ resp.op = "send_report"
    /\ resp.status = 200
    /\ resp.id = 2
    /\ Len(students) = 2
    /\ resp.student.id = 2

====
